---- MODULE Spec2Model ----
(***************************************************************************)
(* Mock GEM device lifecycle: mock_gem_device (construction with goto      *)
(* unwind), mock_device_release (drm release callback), mock_device_flush  *)
(* (drain loop) and mock_destroy_device.                                   *)
(*                                                                         *)
(* Collaborators are observed through a resource-tracking double: every    *)
(* successful acquisition appends the resource to `ledger`, every release  *)
(* call appends its name to `log` and the resources it releases to `freed`.*)
(***************************************************************************)
EXTENDS Integers, Sequences, FiniteSets, TLC

\* ---------------------------------------------------------------- bounds
MaxRounds == 2      \* constructions attempted in one behaviour
MaxWork == 2        \* requests submitted to one Device
MaxTimeout == 2     \* stands for MAX_SCHEDULE_TIMEOUT
MaxDrainLog == MaxWork + 2  \* loop iterations of the drain kept in the log

\* ------------------------------------------------------------- constants
I915_MAX_CACHE_LEVEL == 4

VARIABLES
  pc,                \* position in mock_gem_device / mock_destroy_device / callback
  caller,            \* who called mock_destroy_device: "mock_gem_device" or "user"
  round,             \* number of mock_gem_device calls started
  failed,            \* first strict step that failed in this call, or "none"
  ret,               \* value returned by mock_gem_device: "none", "NULL", "i915"
  ledger,            \* resources acquired by this call, in acquisition order
  freed,             \* resources released for this Device, in release order
  log,               \* release-side calls made for this Device, in call order
  do_release,        \* i915->do_release
  refcount,          \* pdev->dev reference count
  dbg,               \* debugger hooks active
  pm_warn,           \* WARN_ON(pm_runtime_get_sync()) fired
  cachelevel_to_pat, \* device info cache-attribute table
  queued,            \* requests held by the scheduler
  inflight,          \* requests on the mock engine's hw queue
  completed,         \* requests completed but not yet retired
  drained,           \* mock_device_flush returned with retirement reporting idle
  timeout,           \* mock_device_flush's local, handed to every retirement call
  leaked,            \* resources still held by earlier Devices
  prev,              \* how the previous call ended: pc at the time of Start
  uaf                \* the Device was read after the group release freed it

vars == <<pc, caller, round, failed, ret, ledger, freed, log, do_release,
          refcount, dbg, pm_warn, cachelevel_to_pat, queued, inflight,
          completed, drained, timeout, leaked, prev, uaf>>

work == <<queued, inflight, completed, drained, timeout>>

Res == {"pdev", "group", "drm", "params", "mode_config", "gt", "uncore",
        "regions", "wq", "sched", "ggtt_mem", "ggtt", "vm", "engine"}

\* ---------------------------------------------------------------- helpers
RECURSIVE CountIn(_, _)
CountIn(s, x) ==
  IF s = <<>> THEN 0
  ELSE (IF Head(s) = x THEN 1 ELSE 0) + CountIn(Tail(s), x)

InSeq(s, x) == \E i \in 1..Len(s) : s[i] = x

\* index of the first occurrence of x in s (0 when absent)
Pos(s, x) == IF InSeq(s, x) THEN CHOOSE i \in 1..Len(s) :
                                   s[i] = x /\ \A j \in 1..(i-1) : s[j] # x
             ELSE 0

acq(r) == CountIn(ledger, r)
rel(r) == CountIn(freed, r)
Held(r) == acq(r) > rel(r)

Outstanding == queued + inflight + completed

\* -------------------------------------------------- collaborator contracts
\* resources a release-side call gives back, in the order it gives them back
Releases(call) ==
  CASE call = "intel_gt_driver_remove"              -> <<"engine">>
    [] call = "mock_fini_ggtt"                      -> <<"vm", "ggtt">>
    [] call = "i915_sched_engine_put"               -> <<"sched">>
    [] call = "intel_gt_driver_late_release_all"    -> <<"gt">>
    [] call = "intel_memory_regions_driver_release" -> <<"regions">>
    [] call = "destroy_workqueue"                   -> <<"wq">>
    [] call = "drm_mode_config_cleanup"             -> <<"mode_config">>
    [] call = "mock_uncore_uninit"                  -> <<"uncore">>
    [] call = "i915_params_free"                    -> <<"params">>
    [] call = "release_dev"                         -> <<"pdev">>
    [] OTHER                                        -> <<>>

RECURSIVE ReleasesAll(_)
ReleasesAll(calls) ==
  IF calls = <<>> THEN <<>>
  ELSE Releases(Head(calls)) \o ReleasesAll(Tail(calls))

\* a run of release-side calls: each is logged and gives back its resources
DoCalls(calls) ==
  /\ log' = log \o calls
  /\ freed' = freed \o ReleasesAll(calls)

\* a call of the drain loop, kept in the log for its first iterations only
DrainLogged(call) ==
  IF CountIn(log, call) < MaxDrainLog THEN <<call>> ELSE <<>>

\* put_device(): drops one reference; the last one runs pdev->dev.release
put_device_calls(rc) ==
  IF rc = 1 THEN <<"put_device", "release_dev">> ELSE <<"put_device">>

\* ------------------------------------------------- mock_gem_device: gotos
ErrLabel_skip_sched(step) ==
  CASE step = "uncore"      -> "err_drv"
    [] step = "wq"          -> "err_uncore"
    [] step = "sched"       -> "err_free_wq"
    [] step = "ggtt"        -> "err_free_wq"
    [] step = "engine"      -> "err_unlock"
    [] step = "engine_init" -> "err_context"

ErrLabel_return_early(step) ==
  CASE step = "uncore"      -> "L263"
    [] step = "wq"          -> "err_uncore"
    [] step = "sched"       -> "err_free_wq"
    [] step = "ggtt"        -> "err_unlock"
    [] step = "engine"      -> "err_unlock"
    [] step = "engine_init" -> "err_context"

ErrLabel_ignore_init(step) ==
  CASE step = "uncore"      -> "err_drv"
    [] step = "wq"          -> "err_uncore"
    [] step = "sched"       -> "err_free_wq"
    [] step = "ggtt"        -> "err_unlock"
    [] step = "engine"      -> "err_unlock"
    [] step = "engine_init" -> "L240"

\* the label each failing strict step jumps to
ErrLabel(step) ==
  CASE step = "uncore"      -> "err_drv"
    [] step = "wq"          -> "err_uncore"
    [] step = "sched"       -> "err_free_wq"
    [] step = "ggtt"        -> "err_unlock"
    [] step = "engine"      -> "err_unlock"
    [] step = "engine_init" -> "err_context"

ReleaseEntry_always_full(flag) == "L65"

ReleaseEntry_inverted(flag) == IF flag THEN "out" ELSE "L65"

\* mock_device_release: if (!i915->do_release) goto out;
ReleaseEntry(flag) == IF ~flag THEN "out" ELSE "L65"

\* intel_gt_retire_requests_timeout reports true when no work remains
RetireIdle(q, f) == q + f = 0

FlushAgain_once(idle) == FALSE

FlushAgain_always(idle) == TRUE

\* mock_device_flush: do { ... } while (!intel_gt_retire_requests_timeout())
FlushAgain(idle) == ~idle

RECURSIVE FillPat_short(_, _)
FillPat_short(t, i) ==
  IF i < I915_MAX_CACHE_LEVEL - 1
  THEN FillPat_short([t EXCEPT ![i] = i], i + 1)
  ELSE t

\* for (i = 0; i < I915_MAX_CACHE_LEVEL; i++) cachelevel_to_pat[i] = i
RECURSIVE FillPat(_, _)
FillPat(t, i) ==
  IF i < I915_MAX_CACHE_LEVEL
  THEN FillPat([t EXCEPT ![i] = i], i + 1)
  ELSE t

AfterPmSync_fatal(warned) == IF warned THEN "err_drv" ELSE "L172"

\* WARN_ON(pm_runtime_get_sync()): the result is only logged
AfterPmSync(warned) == "L172"

DeviceReadAt_late == "L271"

\* mock_destroy_device: struct device *dev = i915->drm.dev is read at entry,
\* before devres_release_group; put_device uses the local
DeviceReadAt == "L268"

Init ==
  /\ pc = "idle"
  /\ caller = "none"
  /\ round = 0
  /\ failed = "none"
  /\ ret = "none"
  /\ ledger = <<>>
  /\ freed = <<>>
  /\ log = <<>>
  /\ do_release = FALSE
  /\ refcount = 0
  /\ dbg = FALSE
  /\ pm_warn = FALSE
  /\ cachelevel_to_pat = [i \in 0..(I915_MAX_CACHE_LEVEL - 1) |-> 0]
  /\ queued = 0
  /\ inflight = 0
  /\ completed = 0
  /\ drained = FALSE
  /\ timeout = 0
  /\ leaked = {}
  /\ prev = "none"
  /\ uaf = FALSE

\* ------------------------------------------------ mock_gem_device: steps
\* a caller invokes mock_gem_device(); the Device of an earlier call is gone
Start ==
  /\ pc \in {"idle", "returned", "destroyed"}
  /\ round < MaxRounds
  /\ round' = round + 1
  /\ leaked' = leaked \cup {r \in Res : Held(r)}
  /\ prev' = pc
  /\ uaf' = FALSE
  /\ pc' = "L134"
  /\ caller' = "none"
  /\ failed' = "none"
  /\ ret' = "none"
  /\ ledger' = <<>>
  /\ freed' = <<>>
  /\ log' = <<>>
  /\ do_release' = FALSE
  /\ refcount' = 0
  /\ dbg' = FALSE
  /\ pm_warn' = FALSE
  /\ queued' = 0
  /\ inflight' = 0
  /\ completed' = 0
  /\ drained' = FALSE
  /\ timeout' = 0
  /\ UNCHANGED cachelevel_to_pat

\* pdev = kzalloc(); device_initialize(); pdev->dev.release = release_dev
kzalloc_pdev ==
  /\ pc = "L134"
  /\ \E ok \in BOOLEAN :
       IF ok
       THEN /\ ledger' = Append(ledger, "pdev")
            /\ refcount' = 1
            /\ pc' = "L147"
            /\ UNCHANGED <<failed, ret>>
       ELSE /\ failed' = "pdev"
            /\ ret' = "NULL"
            /\ pc' = "returned"
            /\ UNCHANGED <<ledger, refcount>>
  /\ UNCHANGED <<caller, round, freed, log, do_release, dbg, pm_warn,
                 cachelevel_to_pat, work, leaked, prev, uaf>>

\* if (!devres_open_group()) { put_device(); return NULL; }
devres_open_group ==
  /\ pc = "L147"
  /\ \E ok \in BOOLEAN :
       IF ok
       THEN /\ ledger' = Append(ledger, "group")
            /\ pc' = "L152"
            /\ UNCHANGED <<failed, ret, freed, log, refcount>>
       ELSE /\ failed' = "group"
            /\ DoCalls(put_device_calls(refcount))
            /\ refcount' = refcount - 1
            /\ ret' = "NULL"
            /\ pc' = "returned"
            /\ UNCHANGED ledger
  /\ UNCHANGED <<caller, round, do_release, dbg, pm_warn,
                 cachelevel_to_pat, work, leaked, prev, uaf>>

\* i915 = devm_drm_dev_alloc(); the Device is zero-initialised
devm_drm_dev_alloc ==
  /\ pc = "L152"
  /\ \E ok \in BOOLEAN :
       IF ok
       THEN /\ ledger' = Append(ledger, "drm")
            /\ cachelevel_to_pat' = [i \in 0..(I915_MAX_CACHE_LEVEL - 1) |-> 0]
            /\ pc' = "L164"
            /\ UNCHANGED <<failed, ret, freed, log, refcount>>
       ELSE /\ failed' = "drm"
            /\ log' = log \o <<"devres_release_group">> \o put_device_calls(refcount)
            /\ freed' = freed \o <<"group">>
                              \o ReleasesAll(put_device_calls(refcount))
            /\ refcount' = refcount - 1
            /\ ret' = "NULL"
            /\ pc' = "returned"
            /\ UNCHANGED <<ledger, cachelevel_to_pat>>
  /\ UNCHANGED <<caller, round, do_release, dbg, pm_warn, work, leaked, prev, uaf>>

\* pm_runtime_enable(); if (pm_runtime_enabled()) WARN_ON(pm_runtime_get_sync())
pm_runtime ==
  /\ pc = "L164"
  /\ \E enabled \in BOOLEAN, err \in BOOLEAN :
       /\ pm_warn' = (enabled /\ err)
       /\ pc' = AfterPmSync(enabled /\ err)
  /\ UNCHANGED <<caller, round, failed, ret, ledger, freed, log, do_release,
                 refcount, dbg, cachelevel_to_pat, work, leaked, prev, uaf>>

\* i915_params_copy(&i915->params, &i915_modparams)
i915_params_copy ==
  /\ pc = "L172"
  /\ ledger' = Append(ledger, "params")
  /\ pc' = "L177"
  /\ UNCHANGED <<caller, round, failed, ret, freed, log, do_release,
                 refcount, dbg, pm_warn, cachelevel_to_pat, work, leaked, prev, uaf>>

\* drm_mode_config_init(&i915->drm)
drm_mode_config_init ==
  /\ pc = "L177"
  /\ ledger' = Append(ledger, "mode_config")
  /\ pc' = "L188"
  /\ UNCHANGED <<caller, round, failed, ret, freed, log, do_release,
                 refcount, dbg, pm_warn, cachelevel_to_pat, work, leaked, prev, uaf>>

\* for (i = 0; i < I915_MAX_CACHE_LEVEL; i++) cachelevel_to_pat[i] = i
init_cachelevel ==
  /\ pc = "L188"
  /\ cachelevel_to_pat' = FillPat(cachelevel_to_pat, 0)
  /\ pc' = "L191"
  /\ UNCHANGED <<caller, round, failed, ret, ledger, freed, log, do_release,
                 refcount, dbg, pm_warn, work, leaked, prev, uaf>>

\* intel_root_gt_init_early(i915)
intel_root_gt_init_early ==
  /\ pc = "L191"
  /\ ledger' = Append(ledger, "gt")
  /\ pc' = "L194"
  /\ UNCHANGED <<caller, round, failed, ret, freed, log, do_release,
                 refcount, dbg, pm_warn, cachelevel_to_pat, work, leaked, prev, uaf>>

\* if (mock_uncore_init()) goto err_drv
mock_uncore_init ==
  /\ pc = "L194"
  /\ \E ok \in BOOLEAN :
       IF ok
       THEN /\ ledger' = Append(ledger, "uncore")
            /\ pc' = "L197"
            /\ UNCHANGED failed
       ELSE /\ failed' = "uncore"
            /\ pc' = ErrLabel("uncore")
            /\ UNCHANGED ledger
  /\ UNCHANGED <<caller, round, ret, freed, log, do_release, refcount, dbg,
                 pm_warn, cachelevel_to_pat, work, leaked, prev, uaf>>

\* wakeref, mock_gt_probe, intel_memory_regions_hw_probe, i915_gem_init__mm
intel_memory_regions_hw_probe ==
  /\ pc = "L197"
  /\ ledger' = Append(ledger, "regions")
  /\ pc' = "L208"
  /\ UNCHANGED <<caller, round, failed, ret, freed, log, do_release,
                 refcount, dbg, pm_warn, cachelevel_to_pat, work, leaked, prev, uaf>>

\* i915->wq = alloc_workqueue(); if (!i915->wq) goto err_uncore
alloc_workqueue ==
  /\ pc = "L208"
  /\ \E ok \in BOOLEAN :
       IF ok
       THEN /\ ledger' = Append(ledger, "wq")
            /\ pc' = "L212"
            /\ UNCHANGED failed
       ELSE /\ failed' = "wq"
            /\ pc' = ErrLabel("wq")
            /\ UNCHANGED ledger
  /\ UNCHANGED <<caller, round, ret, freed, log, do_release, refcount, dbg,
                 pm_warn, cachelevel_to_pat, work, leaked, prev, uaf>>

\* i915->sched = i915_sched_engine_create_cpu(); if (!sched) goto err_free_wq
i915_sched_engine_create_cpu ==
  /\ pc = "L212"
  /\ \E ok \in BOOLEAN :
       IF ok
       THEN /\ ledger' = Append(ledger, "sched")
            /\ pc' = "L216"
            /\ UNCHANGED failed
       ELSE /\ failed' = "sched"
            /\ pc' = ErrLabel("sched")
            /\ UNCHANGED ledger
  /\ UNCHANGED <<caller, round, ret, freed, log, do_release, refcount, dbg,
                 pm_warn, cachelevel_to_pat, work, leaked, prev, uaf>>

\* i915->mm.sched, i915->mm.wq, mock_init_contexts(): bookkeeping only
mock_init_contexts ==
  /\ pc = "L216"
  /\ pc' = "L221"
  /\ UNCHANGED <<caller, round, failed, ret, ledger, freed, log, do_release,
                 refcount, dbg, pm_warn, cachelevel_to_pat, work, leaked, prev, uaf>>

\* ggtt = drmm_kzalloc(); if (!ggtt) goto err_unlock
drmm_kzalloc_ggtt ==
  /\ pc = "L221"
  /\ \E ok \in BOOLEAN :
       IF ok
       THEN /\ ledger' = Append(ledger, "ggtt_mem")
            /\ pc' = "L225"
            /\ UNCHANGED failed
       ELSE /\ failed' = "ggtt"
            /\ pc' = ErrLabel("ggtt")
            /\ UNCHANGED ledger
  /\ UNCHANGED <<caller, round, ret, freed, log, do_release, refcount, dbg,
                 pm_warn, cachelevel_to_pat, work, leaked, prev, uaf>>

\* mock_init_ggtt(gt); gt->vm = i915_vm_get(&ggtt->vm); engine masks
mock_init_ggtt ==
  /\ pc = "L225"
  /\ ledger' = ledger \o <<"ggtt", "vm">>
  /\ pc' = "L233"
  /\ UNCHANGED <<caller, round, failed, ret, freed, log, do_release,
                 refcount, dbg, pm_warn, cachelevel_to_pat, work, leaked, prev, uaf>>

\* engine[RCS0] = mock_engine(); if (!engine[RCS0]) goto err_unlock
mock_engine ==
  /\ pc = "L233"
  /\ \E ok \in BOOLEAN :
       IF ok
       THEN /\ ledger' = Append(ledger, "engine")
            /\ pc' = "L237"
            /\ UNCHANGED failed
       ELSE /\ failed' = "engine"
            /\ pc' = ErrLabel("engine")
            /\ UNCHANGED ledger
  /\ UNCHANGED <<caller, round, ret, freed, log, do_release, refcount, dbg,
                 pm_warn, cachelevel_to_pat, work, leaked, prev, uaf>>

\* if (mock_engine_init(engine[RCS0])) goto err_context
mock_engine_init ==
  /\ pc = "L237"
  /\ \E ok \in BOOLEAN :
       IF ok
       THEN /\ pc' = "L240"
            /\ UNCHANGED failed
       ELSE /\ failed' = "engine_init"
            /\ pc' = ErrLabel("engine_init")
  /\ UNCHANGED <<caller, round, ret, ledger, freed, log, do_release, refcount,
                 dbg, pm_warn, cachelevel_to_pat, work, leaked, prev, uaf>>

\* __clear_bit(I915_WEDGED); intel_engines_driver_register(i915)
intel_engines_driver_register ==
  /\ pc = "L240"
  /\ pc' = "L243"
  /\ UNCHANGED <<caller, round, failed, ret, ledger, freed, log, do_release,
                 refcount, dbg, pm_warn, cachelevel_to_pat, work, leaked, prev, uaf>>

\* i915->do_release = true; ida_init()
set_do_release ==
  /\ pc = "L243"
  /\ do_release' = TRUE
  /\ pc' = "L246"
  /\ UNCHANGED <<caller, round, failed, ret, ledger, freed, log, refcount,
                 dbg, pm_warn, cachelevel_to_pat, work, leaked, prev, uaf>>

\* i915_debugger_init(i915); return i915
i915_debugger_init ==
  /\ pc = "L246"
  /\ \E ok \in BOOLEAN : dbg' = ok
  /\ ret' = "i915"
  /\ pc' = "in_use"
  /\ UNCHANGED <<caller, round, failed, ledger, freed, log, do_release,
                 refcount, pm_warn, cachelevel_to_pat, work, leaked, prev, uaf>>

\* ------------------------------------------- mock_gem_device: unwind labels
\* err_context: intel_gt_driver_remove(to_gt(i915)), falls into err_unlock
err_context ==
  /\ pc = "err_context"
  /\ DoCalls(<<"intel_gt_driver_remove">>)
  /\ pc' = "err_unlock"
  /\ UNCHANGED <<caller, round, failed, ret, ledger, do_release, refcount,
                 dbg, pm_warn, cachelevel_to_pat, work, leaked, prev, uaf>>

\* err_unlock: i915_sched_engine_put(i915->sched), falls into err_free_wq
err_unlock ==
  /\ pc = "err_unlock"
  /\ DoCalls(<<"i915_sched_engine_put">>)
  /\ pc' = "err_free_wq"
  /\ UNCHANGED <<caller, round, failed, ret, ledger, do_release, refcount,
                 dbg, pm_warn, cachelevel_to_pat, work, leaked, prev, uaf>>

\* err_free_wq: destroy_workqueue(i915->wq), falls into err_uncore
err_free_wq ==
  /\ pc = "err_free_wq"
  /\ DoCalls(<<"destroy_workqueue">>)
  /\ pc' = "err_uncore"
  /\ UNCHANGED <<caller, round, failed, ret, ledger, do_release, refcount,
                 dbg, pm_warn, cachelevel_to_pat, work, leaked, prev, uaf>>

\* err_uncore: mock_uncore_uninit(&i915->uncore, i915), falls into err_drv
err_uncore ==
  /\ pc = "err_uncore"
  /\ DoCalls(<<"mock_uncore_uninit">>)
  /\ pc' = "err_drv"
  /\ UNCHANGED <<caller, round, failed, ret, ledger, do_release, refcount,
                 dbg, pm_warn, cachelevel_to_pat, work, leaked, prev, uaf>>

\* err_drv: late release, memory regions release, mode-config cleanup, then
\* mock_destroy_device(i915) is called
err_drv ==
  /\ pc = "err_drv"
  /\ DoCalls(<<"intel_gt_driver_late_release_all",
               "intel_memory_regions_driver_release",
               "drm_mode_config_cleanup">>)
  /\ caller' = "mock_gem_device"
  /\ uaf' = (uaf \/ (DeviceReadAt = "L268" /\ ~Held("drm")))
  /\ pc' = "L270"
  /\ UNCHANGED <<round, failed, ret, ledger, do_release, refcount,
                 dbg, pm_warn, cachelevel_to_pat, work, leaked, prev>>

\* return NULL after the unwind
return_null ==
  /\ pc = "L263"
  /\ ret' = "NULL"
  /\ pc' = "returned"
  /\ UNCHANGED <<caller, round, failed, ledger, freed, log, do_release,
                 refcount, dbg, pm_warn, cachelevel_to_pat, work, leaked, prev, uaf>>

\* ---------------------------------------------------- mock_destroy_device
\* the owner of a constructed Device calls mock_destroy_device(i915)
mock_destroy_device ==
  /\ pc = "in_use"
  /\ caller' = "user"
  /\ uaf' = (uaf \/ (DeviceReadAt = "L268" /\ ~Held("drm")))
  /\ pc' = "L270"
  /\ UNCHANGED <<round, failed, ret, ledger, freed, log, do_release,
                 refcount, dbg, pm_warn, cachelevel_to_pat, work, leaked, prev>>

\* devres_release_group(dev, NULL): the group holds the drm device, whose last
\* reference is dropped, which runs mock_driver.release = mock_device_release
devres_release_group ==
  /\ pc = "L270"
  /\ DoCalls(<<"devres_release_group", "mock_device_release">>)
  /\ pc' = ReleaseEntry(do_release)
  /\ UNCHANGED <<caller, round, failed, ret, ledger, do_release, refcount,
                 dbg, pm_warn, cachelevel_to_pat, work, leaked, prev, uaf>>

\* after the callback: drm-managed allocations, the Device and the group go
drm_managed_release ==
  /\ pc = "L270ret"
  /\ log' = Append(log, "drm_managed_release")
  /\ freed' = freed \o (IF Held("ggtt_mem") THEN <<"ggtt_mem">> ELSE <<>>)
                    \o <<"drm", "group">>
  /\ pc' = "L271"
  /\ UNCHANGED <<caller, round, failed, ret, ledger, do_release, refcount,
                 dbg, pm_warn, cachelevel_to_pat, work, leaked, prev, uaf>>

\* put_device(dev); control returns to the caller of mock_destroy_device
put_device ==
  /\ pc = "L271"
  /\ DoCalls(put_device_calls(refcount))
  /\ refcount' = refcount - 1
  /\ uaf' = (uaf \/ (DeviceReadAt = "L271" /\ ~Held("drm")))
  /\ pc' = IF caller = "mock_gem_device" THEN "L263" ELSE "destroyed"
  /\ UNCHANGED <<caller, round, failed, ret, ledger, do_release,
                 dbg, pm_warn, cachelevel_to_pat, work, leaked, prev>>

\* ---------------------------------------------------- mock_device_release
\* i915_debugger_fini(i915); mock_device_flush is entered:
\* long timeout = MAX_SCHEDULE_TIMEOUT
i915_debugger_fini ==
  /\ pc = "L65"
  /\ DoCalls(<<"i915_debugger_fini">>)
  /\ dbg' = FALSE
  /\ timeout' = MaxTimeout
  /\ pc' = "L53"
  /\ UNCHANGED <<caller, round, failed, ret, ledger, do_release, refcount,
                 pm_warn, cachelevel_to_pat, queued, inflight, completed,
                 drained, leaked, prev, uaf>>

\* mock_device_flush: for_each_engine(...) mock_engine_flush(engine)
\* every request on the engine's hw queue is completed
mock_engine_flush ==
  /\ pc = "L53"
  /\ DoCalls(DrainLogged("mock_engine_flush"))
  /\ completed' = completed + inflight
  /\ inflight' = 0
  /\ pc' = "L55"
  /\ UNCHANGED <<caller, round, failed, ret, ledger, do_release, refcount,
                 dbg, pm_warn, cachelevel_to_pat, queued, drained, timeout, leaked, prev, uaf>>

\* mock_device_flush: while (!intel_gt_retire_requests_timeout(gt, &timeout))
\* the call retires completed work and reports whether the GT is idle; with
\* work left and nothing to retire it has waited until the timeout ran out
intel_gt_retire_requests_timeout ==
  /\ pc = "L55"
  /\ DoCalls(DrainLogged("intel_gt_retire_requests_timeout"))
  /\ completed' = 0
  /\ timeout' = IF completed = 0 /\ Outstanding > 0 THEN 0 ELSE timeout
  /\ LET idle == RetireIdle(queued, inflight)
     IN /\ pc' = IF FlushAgain(idle) THEN "L53" ELSE "L68"
        /\ drained' = idle
  /\ UNCHANGED <<caller, round, failed, ret, ledger, do_release, refcount,
                 dbg, pm_warn, cachelevel_to_pat, queued, inflight, leaked, prev, uaf>>

\* intel_gt_driver_remove(to_gt(i915))
intel_gt_driver_remove ==
  /\ pc = "L68"
  /\ DoCalls(<<"intel_gt_driver_remove">>)
  /\ pc' = "L70"
  /\ UNCHANGED <<caller, round, failed, ret, ledger, do_release, refcount,
                 dbg, pm_warn, cachelevel_to_pat, work, leaked, prev, uaf>>

\* i915_gem_drain_workqueue(i915); i915_gem_drain_freed_objects(i915)
i915_gem_drain ==
  /\ pc = "L70"
  /\ DoCalls(<<"i915_gem_drain_workqueue", "i915_gem_drain_freed_objects">>)
  /\ pc' = "L73"
  /\ UNCHANGED <<caller, round, failed, ret, ledger, do_release, refcount,
                 dbg, pm_warn, cachelevel_to_pat, work, leaked, prev, uaf>>

\* mock_fini_ggtt(to_gt(i915)->ggtt)
mock_fini_ggtt ==
  /\ pc = "L73"
  /\ DoCalls(<<"mock_fini_ggtt">>)
  /\ pc' = "L74"
  /\ UNCHANGED <<caller, round, failed, ret, ledger, do_release, refcount,
                 dbg, pm_warn, cachelevel_to_pat, work, leaked, prev, uaf>>

\* i915_sched_engine_put(i915->sched)
i915_sched_engine_put ==
  /\ pc = "L74"
  /\ DoCalls(<<"i915_sched_engine_put">>)
  /\ pc' = "L76"
  /\ UNCHANGED <<caller, round, failed, ret, ledger, do_release, refcount,
                 dbg, pm_warn, cachelevel_to_pat, work, leaked, prev, uaf>>

\* intel_gt_driver_late_release_all(); intel_memory_regions_driver_release()
late_release ==
  /\ pc = "L76"
  /\ DoCalls(<<"intel_gt_driver_late_release_all",
               "intel_memory_regions_driver_release">>)
  /\ pc' = "L79"
  /\ UNCHANGED <<caller, round, failed, ret, ledger, do_release, refcount,
                 dbg, pm_warn, cachelevel_to_pat, work, leaked, prev, uaf>>

\* destroy_workqueue(i915->wq)
destroy_workqueue ==
  /\ pc = "L79"
  /\ DoCalls(<<"destroy_workqueue">>)
  /\ pc' = "L81"
  /\ UNCHANGED <<caller, round, failed, ret, ledger, do_release, refcount,
                 dbg, pm_warn, cachelevel_to_pat, work, leaked, prev, uaf>>

\* drm_mode_config_cleanup(&i915->drm)
drm_mode_config_cleanup ==
  /\ pc = "L81"
  /\ DoCalls(<<"drm_mode_config_cleanup">>)
  /\ pc' = "L82"
  /\ UNCHANGED <<caller, round, failed, ret, ledger, do_release, refcount,
                 dbg, pm_warn, cachelevel_to_pat, work, leaked, prev, uaf>>

\* mock_uncore_uninit(&i915->uncore, i915)
mock_uncore_uninit ==
  /\ pc = "L82"
  /\ DoCalls(<<"mock_uncore_uninit">>)
  /\ pc' = "out"
  /\ UNCHANGED <<caller, round, failed, ret, ledger, do_release, refcount,
                 dbg, pm_warn, cachelevel_to_pat, work, leaked, prev, uaf>>

\* out: i915_params_free(&i915->params); the callback returns
i915_params_free ==
  /\ pc = "out"
  /\ DoCalls(<<"i915_params_free">>)
  /\ pc' = "L270ret"
  /\ UNCHANGED <<caller, round, failed, ret, ledger, do_release, refcount,
                 dbg, pm_warn, cachelevel_to_pat, work, leaked, prev, uaf>>

\* ------------------------------------------------ use of a built Device
\* a request is submitted to the scheduler
Submit ==
  /\ pc = "in_use"
  /\ Outstanding < MaxWork
  /\ queued' = queued + 1
  /\ UNCHANGED <<pc, caller, round, failed, ret, ledger, freed, log,
                 do_release, refcount, dbg, pm_warn, cachelevel_to_pat,
                 inflight, completed, drained, timeout, leaked, prev, uaf>>

\* the scheduler's worker passes a request to the engine
Dispatch ==
  /\ queued > 0
  /\ queued' = queued - 1
  /\ inflight' = inflight + 1
  /\ UNCHANGED <<pc, caller, round, failed, ret, ledger, freed, log,
                 do_release, refcount, dbg, pm_warn, cachelevel_to_pat,
                 completed, drained, timeout, leaked, prev, uaf>>

\* the mock engine's timer completes a request
Complete ==
  /\ inflight > 0
  /\ inflight' = inflight - 1
  /\ completed' = completed + 1
  /\ UNCHANGED <<pc, caller, round, failed, ret, ledger, freed, log,
                 do_release, refcount, dbg, pm_warn, cachelevel_to_pat,
                 queued, drained, timeout, leaked, prev, uaf>>

Next ==
  \/ Start
  \/ kzalloc_pdev
  \/ devres_open_group
  \/ devm_drm_dev_alloc
  \/ pm_runtime
  \/ i915_params_copy
  \/ drm_mode_config_init
  \/ init_cachelevel
  \/ intel_root_gt_init_early
  \/ mock_uncore_init
  \/ intel_memory_regions_hw_probe
  \/ alloc_workqueue
  \/ i915_sched_engine_create_cpu
  \/ mock_init_contexts
  \/ drmm_kzalloc_ggtt
  \/ mock_init_ggtt
  \/ mock_engine
  \/ mock_engine_init
  \/ intel_engines_driver_register
  \/ set_do_release
  \/ i915_debugger_init
  \/ err_context
  \/ err_unlock
  \/ err_free_wq
  \/ err_uncore
  \/ err_drv
  \/ return_null
  \/ mock_destroy_device
  \/ devres_release_group
  \/ drm_managed_release
  \/ put_device
  \/ i915_debugger_fini
  \/ mock_engine_flush
  \/ intel_gt_retire_requests_timeout
  \/ intel_gt_driver_remove
  \/ i915_gem_drain
  \/ mock_fini_ggtt
  \/ i915_sched_engine_put
  \/ late_release
  \/ destroy_workqueue
  \/ drm_mode_config_cleanup
  \/ mock_uncore_uninit
  \/ i915_params_free
  \/ Submit
  \/ Dispatch
  \/ Complete

Spec == Init /\ [][Next]_vars

\* ================================================================ claims
FailedReturn == pc = "returned" /\ failed # "none"

DrainCalls == {"mock_engine_flush", "intel_gt_retire_requests_timeout"}

IsNotDrainCall(e) == e \notin DrainCalls

\* the calls the release callback made, once it has returned
CallbackCalls ==
  SubSeq(log, Pos(log, "mock_device_release") + 1,
              Pos(log, "drm_managed_release") - 1)

\* C1: prefix-unwind. When a strict step is the first to fail and
\* mock_gem_device has returned, every resource acquired before that step has
\* been released exactly once (so none is still held).
C1_PrefixUnwind ==
  FailedReturn => \A r \in Res : acq(r) > 0 => rel(r) = 1

\* C2: mock_gem_device never returns a partial Device. It returns NULL, or a
\* Device for which no strict step failed, do_release is set and register
\* shim, workqueue, scheduler, GTT and engine are held.
C2_NoPartialDevice ==
  /\ pc = "returned" => ret = "NULL"
  /\ failed # "none" => ret # "i915"
  /\ ret = "i915" => do_release
  /\ pc = "in_use" =>
       /\ ret = "i915"
       /\ \A r \in {"uncore", "wq", "sched", "ggtt", "engine"} : Held(r)

C2_Witness == pc = "in_use" /\ ret = "i915" /\ do_release

\* C3: drain-before-free. In teardown of a fully constructed Device, engine
\* removal and GTT teardown are executed only after mock_device_flush has
\* left its loop with the retirement call reporting no outstanding work.
C3_DrainBeforeFree ==
  (do_release /\ (InSeq(log, "intel_gt_driver_remove")
                   \/ InSeq(log, "mock_fini_ggtt"))) =>
    /\ drained
    /\ Outstanding = 0
    /\ \A i \in 1..Len(log) :
         log[i] \in DrainCalls => i < Pos(log, "intel_gt_driver_remove")

C3_Witness ==
  /\ do_release
  /\ InSeq(log, "mock_fini_ggtt")
  /\ CountIn(log, "mock_engine_flush") >= 2

\* the teardown step of section 4.2 a call belongs to (0: not a listed step)
TeardownStep(e) ==
  CASE e = "i915_debugger_fini"                  -> 1
    [] e \in DrainCalls                          -> 2
    [] e = "intel_gt_driver_remove"              -> 3
    [] e = "i915_gem_drain_workqueue"            -> 4
    [] e = "i915_gem_drain_freed_objects"        -> 4
    [] e = "mock_fini_ggtt"                      -> 5
    [] e = "i915_sched_engine_put"               -> 6
    [] e = "intel_gt_driver_late_release_all"    -> 7
    [] e = "intel_memory_regions_driver_release" -> 7
    [] e = "destroy_workqueue"                   -> 8
    [] e = "drm_mode_config_cleanup"             -> 9
    [] e = "mock_uncore_uninit"                  -> 10
    [] e = "devres_release_group"                -> 11
    [] e = "put_device"                          -> 11
    [] e = "release_dev"                         -> 11
    [] e = "i915_params_free"                    -> 12
    [] OTHER                                     -> 0

NothingHeld == (\A r \in Res : ~Held(r)) /\ ~dbg

\* C4 as stated: after construct-then-destroy the twelve teardown steps have
\* run in the listed order (grouped-scope release and identity drop as step
\* 11, configuration copy free as step 12) and nothing remains acquired.
C4_ListedOrder ==
  pc = "destroyed" =>
    /\ \A k \in 1..12 : \E i \in 1..Len(log) : TeardownStep(log[i]) = k
    /\ \A i, j \in 1..Len(log) :
         (i < j /\ TeardownStep(log[i]) > 0 /\ TeardownStep(log[j]) > 0)
           => TeardownStep(log[i]) <= TeardownStep(log[j])
    /\ NothingHeld

\* C4 amended: devres_release_group is entered first and runs the release
\* callback; inside it steps 1-10 run in the listed order, then the
\* configuration copy is freed; the identity reference is dropped after the
\* group release and release_dev is the last call; nothing remains acquired.
C4_CodeOrder ==
  pc = "destroyed" =>
    /\ SelectSeq(log, IsNotDrainCall) =
         <<"devres_release_group", "mock_device_release",
           "i915_debugger_fini", "intel_gt_driver_remove",
           "i915_gem_drain_workqueue", "i915_gem_drain_freed_objects",
           "mock_fini_ggtt", "i915_sched_engine_put",
           "intel_gt_driver_late_release_all",
           "intel_memory_regions_driver_release", "destroy_workqueue",
           "drm_mode_config_cleanup", "mock_uncore_uninit",
           "i915_params_free", "drm_managed_release", "put_device",
           "release_dev">>
    /\ InSeq(log, "mock_engine_flush")
    /\ InSeq(log, "intel_gt_retire_requests_timeout")
    /\ \A i \in 1..Len(log) :
         log[i] \in DrainCalls =>
           /\ Pos(log, "i915_debugger_fini") < i
           /\ i < Pos(log, "intel_gt_driver_remove")
    /\ NothingHeld

C4_Witness ==
  /\ pc = "destroyed"
  /\ InSeq(log, "release_dev")
  /\ CountIn(log, "intel_gt_retire_requests_timeout") >= 2

\* C5: when the GTT allocation is the first step to fail, by the time
\* mock_gem_device returns the scheduler, the workqueue, the register shim,
\* the grouped scope and the identity have each been released, and NULL is
\* returned.
C5_GttAllocFailure ==
  (failed = "ggtt" /\ pc = "returned") =>
    /\ ret = "NULL"
    /\ \A r \in {"sched", "wq", "uncore", "group", "pdev"} :
         rel(r) = 1 /\ ~Held(r)
    /\ InSeq(log, "devres_release_group")
    /\ InSeq(log, "release_dev")

C5_Witness == failed = "ggtt" /\ pc = "returned" /\ rel("sched") = 1

\* C6: on a failure path no release call is made for a resource whose
\* acquisition had not run.
C6_NothingOutsideLedger ==
  failed # "none" => \A r \in Res : rel(r) <= acq(r)

\* for any two resources A acquired before B, B was released before A
ReverseOfLedger ==
  \A i, j \in 1..Len(ledger) :
    (i < j /\ InSeq(freed, ledger[i]) /\ InSeq(freed, ledger[j]))
      => Pos(freed, ledger[j]) < Pos(freed, ledger[i])

\* C7: on a failure path the resources acquired so far are released in
\* exactly the reverse of their acquisition order.
C7_ReverseOrderOnFailure == FailedReturn => ReverseOfLedger

\* C8: destruction of a fully constructed Device releases in strict reverse
\* acquisition order, and no release call precedes the drain.
C8_ReverseOrderOnDestroy ==
  pc = "destroyed" =>
    /\ ReverseOfLedger
    /\ \A i, j \in 1..Len(log) :
         (Releases(log[i]) # <<>> /\ log[j] \in DrainCalls) => j < i

\* C9: when mock_engine or mock_engine_init is the first step to fail, the
\* GTT set up by mock_init_ggtt has been torn down exactly once and the
\* reference taken by i915_vm_get dropped exactly once before the return.
C9_GttBalancedOnEngineFailure ==
  (failed \in {"engine", "engine_init"} /\ pc = "returned") =>
    /\ CountIn(log, "mock_fini_ggtt") = 1
    /\ rel("ggtt") = 1
    /\ rel("vm") = 1

\* C10: with do_release false the release callback runs none of the teardown
\* steps and only frees the configuration copy, so on a failure path no
\* release made by the in-line unwind is made a second time.
C10_CallbackSkipsWhenNotReleased ==
  /\ ~do_release =>
       pc \notin {"L65", "L53", "L55", "L68", "L70", "L73", "L74", "L76",
                  "L79", "L81", "L82"}
  /\ (~do_release /\ InSeq(log, "drm_managed_release")) =>
       CallbackCalls = <<"i915_params_free">>
  /\ failed # "none" =>
       /\ \A i, j \in 1..Len(log) : i # j => log[i] # log[j]
       /\ \A r \in Res : rel(r) <= 1

C10_Witness ==
  /\ failed = "engine_init"
  /\ pc = "returned"
  /\ InSeq(log, "intel_gt_driver_remove")
  /\ CallbackCalls = <<"i915_params_free">>

\* positions of mock_device_release after the drain, where resources go
ReleaseSteps == {"L68", "L70", "L73", "L74", "L76", "L79", "L81", "L82"}

FullLedger ==
  <<"pdev", "group", "drm", "params", "mode_config", "gt", "uncore",
    "regions", "wq", "sched", "ggtt_mem", "ggtt", "vm", "engine">>

\* C12: round trip. When a construction starts after construct-then-destroy,
\* nothing of the destroyed Device is still held and nothing is added to the
\* leaked set; that construction fails only when one of its own steps fails,
\* and otherwise yields a Device with its own full set of resources, none of
\* them released, and fresh flags.
C12_RoundTrip ==
  [][ prev' = "destroyed" =>
        /\ (pc = "destroyed" /\ pc' = "L134") =>
             /\ \A r \in Res : ~Held(r)
             /\ leaked' = leaked
             /\ ledger' = <<>> /\ freed' = <<>> /\ log' = <<>>
             /\ ~do_release' /\ ~dbg' /\ ~drained'
        /\ pc' = "returned" => failed' # "none"
        /\ pc' = "in_use" =>
             /\ ret' = "i915"
             /\ ledger' = FullLedger
             /\ freed' = <<>>
             /\ log' = <<>>
             /\ do_release'
             /\ refcount' = 1
             /\ ~drained'
             /\ \A i \in 0..(I915_MAX_CACHE_LEVEL - 1) :
                  cachelevel_to_pat'[i] = i ]_vars

C12_Witness == prev = "destroyed" /\ pc = "in_use" /\ round = 2

\* positions of the unwind chain and of the failing return
UnwindPcs == {"err_context", "err_unlock", "err_free_wq", "err_uncore",
              "err_drv", "L263", "returned"}

\* C13: the best-effort steps never make construction fail. The unwind chain
\* and the NULL return are entered only after a strict step failed, whatever
\* pm_runtime_get_sync and i915_debugger_init did, and a call in which every
\* strict step succeeded returns the Device.
C13_BestEffortNeverFatal ==
  /\ pc \in UnwindPcs => failed # "none"
  /\ (caller = "mock_gem_device") => failed # "none"
  /\ pc = "in_use" => (ret = "i915" /\ failed = "none")
  /\ (pm_warn /\ failed = "none") => ret # "NULL"

C13_Witness == pc = "in_use" /\ ret = "i915" /\ pm_warn /\ ~dbg

\* C14: once the capability-metadata step of a construction run has executed,
\* in the first run and in a repeated one, cachelevel_to_pat maps every index
\* below I915_MAX_CACHE_LEVEL to itself for as long as the Device exists.
C14_CacheTableIdentity ==
  (InSeq(ledger, "gt") /\ Held("drm")) =>
    /\ DOMAIN cachelevel_to_pat = 0..(I915_MAX_CACHE_LEVEL - 1)
    /\ \A i \in 0..(I915_MAX_CACHE_LEVEL - 1) : cachelevel_to_pat[i] = i

C14_Witness ==
  /\ round = 2
  /\ pc = "L194"
  /\ cachelevel_to_pat[I915_MAX_CACHE_LEVEL - 1] = I915_MAX_CACHE_LEVEL - 1

\* the calling thread keeps running and the workqueue and the engine timer
\* get to run their pending work
FairSpec ==
  /\ Spec
  /\ WF_vars(mock_engine_flush)
  /\ WF_vars(intel_gt_retire_requests_timeout)
  /\ WF_vars(Dispatch)
  /\ WF_vars(Complete)

StrictResources == {"uncore", "wq", "sched", "ggtt", "engine"}

\* do_release changes only by being set at line 243 of a call in which no
\* strict step failed; it is never set on an unwind path and never cleared
\* while the Device exists
FlagSetOnceNeverReset ==
  /\ (~do_release /\ do_release') => (pc = "L243" /\ failed = "none")
  /\ failed' # "none" => ~do_release'
  /\ (do_release /\ round' = round) => do_release'

\* C16 as stated: in every reachable state do_release implies that register
\* shim, workqueue, scheduler, GTT and engine are all currently acquired, and
\* the flag is set once, only after the last strict step, and never reset.
C16_FlagImpliesHeldAlways ==
  [][ /\ do_release' => \A r \in StrictResources : Held(r)'
      /\ FlagSetOnceNeverReset ]_vars

\* C16 amended: the implication holds from the moment the flag is set until
\* mock_device_release starts releasing with engine removal; the flag itself
\* stays set through the teardown.
C16_FlagImpliesHeldUntilTeardown ==
  [][ /\ (do_release' /\ ~InSeq(log', "intel_gt_driver_remove")) =>
           \A r \in StrictResources : Held(r)'
      /\ FlagSetOnceNeverReset ]_vars

C16_Witness ==
  /\ do_release
  /\ pc = "L55"
  /\ \A r \in StrictResources : Held(r)

\* failing steps that come before i915_params_copy
StepsBeforeCopy == {"pdev", "group", "drm"}

\* C17: the configuration copy is freed exactly once on every path on which
\* it was made (construct then destroy, and every failure after the copy) and
\* never on a path on which it was not made.
C17_ParamsFreedOnce ==
  /\ rel("params") <= acq("params")
  /\ CountIn(log, "i915_params_free") = rel("params")
  /\ pc \in {"returned", "destroyed"} =>
       IF failed \in StepsBeforeCopy
       THEN acq("params") = 0 /\ rel("params") = 0
       ELSE acq("params") = 1 /\ rel("params") = 1

C17_Witness ==
  /\ pc = "returned"
  /\ failed = "uncore"
  /\ CountIn(log, "i915_params_free") = 1

\* positions inside mock_device_release, which works on the Device
CallbackPcs == {"L65", "L53", "L55", "out"} \cup ReleaseSteps

\* C18: release_dev runs exactly once on every path that allocated the
\* identity and is the last release; the Device is read only while the
\* grouped scope still holds it: mock_destroy_device takes the identity
\* handle before devres_release_group and nothing reads the Device later.
C18_IdentityFreedLast ==
  /\ ~uaf
  /\ pc \in CallbackPcs => Held("drm")
  /\ CountIn(log, "release_dev") = rel("pdev")
  /\ rel("pdev") <= acq("pdev")
  /\ InSeq(log, "release_dev") =>
       /\ log[Len(log)] = "release_dev"
       /\ freed[Len(freed)] = "pdev"
       /\ \A r \in Res \ {"pdev"} : Pos(freed, r) < Len(freed)
  /\ pc \in {"returned", "destroyed"} =>
       rel("pdev") = (IF failed = "pdev" THEN 0 ELSE 1)

C18_Witness ==
  /\ pc = "L263"
  /\ ~Held("drm")
  /\ log[Len(log)] = "release_dev"
====
